---------------------------- MODULE Spec2Model ----------------------------
(***************************************************************************)
(* Model of inp.py (Independence Number Project): the INPGraph class, its  *)
(* bound/property registries, the classifier (is_difficult,                *)
(* best_lower_bound, best_upper_bound, has_alpha_property), the critical   *)
(* independent set engine (bipartite_double_cover, union_MCIS, is_KE) and  *)
(* the closed-form bounds kwok, borg, annihilation_number,                 *)
(* cut_vertices_bound and residue.                                         *)
(*                                                                         *)
(* A graph is a record [V |-> vertices, E |-> set of 2-element sets].      *)
(* Vertices of an input graph are 0..n-1 (Sage's default labelling).       *)
(* A call outcome is a record [kind |-> "value", val |-> v] or             *)
(* [kind |-> "raise", val |-> name of the Python exception].               *)
(* Rational numbers (Sage Rational) are records [num, den] with den > 0.   *)
(*                                                                         *)
(* Two specifications: Spec runs the classifier step by step over every    *)
(* registry setting up to MaxReg entries (the class body sets all three    *)
(* registries to the empty list); SpecFn calls the library methods on      *)
(* every labelled graph up to MaxN vertices; SpecResidue runs the loop of  *)
(* residue one iteration at a time on the same graphs.                     *)
(***************************************************************************)
EXTENDS Integers, Sequences, FiniteSets, TLC

VARIABLES g, lower_bounds, upper_bounds, alpha_properties,
          pc, caller, i, bound, has_property, lbound, ubound, ret, residue_seq

vars == <<g, lower_bounds, upper_bounds, alpha_properties,
          pc, caller, i, bound, has_property, lbound, ubound, ret, residue_seq>>

(***************************************************************************)
(* Bounds of the model.                                                    *)
(***************************************************************************)
\* largest order of the graphs given to the library functions
MaxN == 4
\* largest order of the graphs given to the classifier
MaxOrder == 3
\* largest number of entries in one registry
MaxReg == 1

(***************************************************************************)
(* Outcomes and rational arithmetic.                                       *)
(***************************************************************************)
Value(v) == [kind |-> "value", val |-> v]

Raise(e) == [kind |-> "raise", val |-> e]

Rat(a, b) == [num |-> a, den |-> b]

RatLess(p, q) == p.num * q.den < q.num * p.den

\* sage floor / ceil of a rational, as integers
floor(q) == q.num \div q.den

ceil(q) == -((-q.num) \div q.den)

Max(S) == CHOOSE x \in S : \A y \in S : y <= x

(***************************************************************************)
(* Graph primitives supplied by Sage's Graph class.                        *)
(***************************************************************************)
order(G) == Cardinality(G.V)

size(G) == Cardinality(G.E)

neighbors(G, v) == {u \in G.V : {u, v} \in G.E}

\* self.vertices(): the vertices 0..n-1 in ascending order
vertices(G) == [k \in 1..order(G) |-> k - 1]

\* self.degree(): the degrees in the order of self.vertices()
degree(G) == [k \in 1..order(G) |-> Cardinality(neighbors(G, k - 1))]

subgraph(G, S) == [V |-> S, E |-> {e \in G.E : e \subseteq S}]

delete_vertices(G, S) == subgraph(G, G.V \ S)

Pairs(S) == {e \in SUBSET S : Cardinality(e) = 2}

complement(G) == [V |-> G.V, E |-> Pairs(G.V) \ G.E]

CompleteGraph(n) == [V |-> 0..(n - 1), E |-> Pairs(0..(n - 1))]

CycleGraph(n) ==
    [V |-> 0..(n - 1),
     E |-> {e \in Pairs(0..(n - 1)) :
              \E u \in e : \E v \in e : v = (u + 1) % n /\ u # v}]

\* G.tensor_product(H): (u,a)~(v,b) iff u~v in G and a~b in H
tensor_product(G, H) ==
    LET VV == {<<u, a>> : u \in G.V, a \in H.V}
    IN  [V |-> VV,
         E |-> {e \in Pairs(VV) :
                  \E x \in e : \E y \in e :
                     /\ x # y
                     /\ {x[1], y[1]} \in G.E
                     /\ {x[2], y[2]} \in H.E}]

\* size of a largest set of pairwise disjoint edges (self.matching(value_only=True))
RECURSIVE MaxMatching(_)
MaxMatching(E) ==
    IF E = {} THEN 0
    ELSE LET e == CHOOSE x \in E : TRUE
             without == MaxMatching(E \ {e})
             with == 1 + MaxMatching({f \in E : f \cap e = {}})
         IN  IF with > without THEN with ELSE without

matching_number(G) == MaxMatching(G.E)

IsIndependent(G, S) == \A e \in G.E : ~(e \subseteq S)

\* len(self.independent_set()): size of a largest independent set
independence_number(G) ==
    Max({Cardinality(S) : S \in {T \in SUBSET G.V : IsIndependent(G, T)}})

IsIsomorphic(G, H) ==
    /\ Cardinality(G.V) = Cardinality(H.V)
    /\ Cardinality(G.E) = Cardinality(H.E)
    /\ \E f \in [G.V -> H.V] :
          /\ \A x \in G.V : \A y \in G.V : f[x] = f[y] => x = y
          /\ \A e \in G.E : {f[x] : x \in e} \in H.E

(***************************************************************************)
(* INPGraph methods: the critical independent set engine.                  *)
(***************************************************************************)
\* variant: the cover with the extra edges (u,0)-(u,1)
bipartite_double_cover_with_rungs(G) ==
    LET t == tensor_product(G, CompleteGraph(2))
    IN  [V |-> t.V, E |-> t.E \cup {{<<u, 0>>, <<u, 1>>} : u \in G.V}]

bipartite_double_cover(G) == tensor_product(G, CompleteGraph(2))

\* variant: the open neighbourhood, the given vertices themselves left out
closed_neighborhood_open(G, verts) ==
    UNION {neighbors(G, v) : v \in verts}

\* the list branch: the union of the closed neighbourhoods of the given vertices
closed_neighborhood(G, verts) ==
    UNION {{v} \cup neighbors(G, v) : v \in verts}

\* variant: the test adds 1 instead of 2
union_MCIS_plus_one(G) ==
    LET b == bipartite_double_cover(G)
        alpha == order(b) - matching_number(b)
        alpha_test(v) ==
            LET test == delete_vertices(b,
                            closed_neighborhood(b, {<<v, 0>>, <<v, 1>>}))
            IN  order(test) - matching_number(test) + 1
    IN  {v \in G.V : alpha_test(v) = alpha}

\* the result list is built in the order of self.vertices(); it is kept as
\* the set of its members
union_MCIS(G) ==
    LET b == bipartite_double_cover(G)
        alpha == order(b) - matching_number(b)
        alpha_test(v) ==
            LET test == delete_vertices(b,
                            closed_neighborhood(b, {<<v, 0>>, <<v, 1>>}))
            IN  order(test) - matching_number(test) + 2
    IN  {v \in G.V : alpha_test(v) = alpha}

\* variant: the neighbourhood of the union is left out
is_KE_without_neighbors(G) ==
    LET c == union_MCIS(G)
    IN  c = G.V

\* list(set(c + nc)) == self.vertices(): for the labels 0..n-1 CPython
\* iterates the set in ascending order, so the lists agree exactly when
\* the sets do
is_KE(G) ==
    LET c == union_MCIS(G)
        nc == UNION {neighbors(G, v) : v \in c}
    IN  (c \cup nc) = G.V

(***************************************************************************)
(* INPGraph methods: closed-form bounds.                                   *)
(***************************************************************************)
Range(s) == {s[k] : k \in DOMAIN s}

\* max(self.degree()): max() of an empty list raises ValueError
max_degree(G) ==
    IF order(G) = 0 THEN Raise("ValueError")
    ELSE Value(Max(Range(degree(G))))

kwok(G) ==
    LET n == order(G)
        e == size(G)
        Delta == max_degree(G)
    IN  IF Delta.kind = "raise" THEN Delta
        ELSE IF Delta.val = 0 THEN Raise("ValueError")
        ELSE Value(Rat(n * Delta.val - e, Delta.val))

borg(G) ==
    LET n == order(G)
        Delta == max_degree(G)
    IN  IF Delta.kind = "raise" THEN Delta
        ELSE IF Delta.val = 0 THEN Raise("ValueError")
        ELSE Value(Rat(n - ceil(Rat(n - 1, Delta.val)), 1))

RECURSIVE Insert(_, _)
Insert(x, s) ==
    IF s = <<>> THEN <<x>>
    ELSE IF x <= Head(s) THEN <<x>> \o s
    ELSE <<Head(s)>> \o Insert(x, Tail(s))

\* sorted(seq): ascending
RECURSIVE sorted(_)
sorted(s) == IF s = <<>> THEN <<>> ELSE Insert(Head(s), sorted(Tail(s)))

RECURSIVE sum(_)
sum(s) == IF s = <<>> THEN 0 ELSE Head(s) + sum(Tail(s))

\* Python slices seq[:a] and seq[a:], clipped to the list
SliceTo(s, a) == SubSeq(s, 1, IF a < Len(s) THEN a ELSE Len(s))

SliceFrom(s, a) == SubSeq(s, (IF a < Len(s) THEN a ELSE Len(s)) + 1, Len(s))

\* variant: the loop stops at the first index whose prefix sum reaches the rest
RECURSIVE annihilation_loop_strict(_, _, _)
annihilation_loop_strict(seq, n, a) ==
    IF a <= n /\ sum(SliceTo(seq, a)) < sum(SliceFrom(seq, a))
    THEN annihilation_loop_strict(seq, n, a + 1)
    ELSE a

RECURSIVE annihilation_loop(_, _, _)
annihilation_loop(seq, n, a) ==
    IF a <= n /\ sum(SliceTo(seq, a)) <= sum(SliceFrom(seq, a))
    THEN annihilation_loop(seq, n, a + 1)
    ELSE a

annihilation_number(G) == annihilation_loop(sorted(degree(G)), order(G), 1)

\* the vertices joined to a vertex of S by a path
RECURSIVE Reachable(_, _)
Reachable(G, S) ==
    LET T == S \cup UNION {neighbors(G, v) : v \in S}
    IN  IF T = S THEN S ELSE Reachable(G, T)

ConnectedComponents(G) == {Reachable(G, {v}) : v \in G.V}

\* self.blocks_and_cut_vertices()[1]: the vertices whose removal leaves
\* more connected components
cut_vertices(G) ==
    {v \in G.V :
        Cardinality(ConnectedComponents(delete_vertices(G, {v})))
            > Cardinality(ConnectedComponents(G))}

\* n - C/2 - 1/2
cut_vertices_bound(G) ==
    LET n == order(G)
        C == Cardinality(cut_vertices(G))
    IN  Rat(2 * n - C - 1, 2)

RECURSIVE Reverse(_)
Reverse(s) == IF s = <<>> THEN <<>> ELSE Reverse(Tail(s)) \o <<Head(s)>>

\* seq.sort(reverse=True)
sorted_descending(s) == Reverse(sorted(s))

\* self.degree_sequence(): the degrees, largest first
degree_sequence(G) == sorted_descending(degree(G))

\* variant: the body of the loop without the final sort
residue_reduce_unsorted(s) ==
    LET d == Head(s)
        rest == Tail(s)
        k == IF d < Len(rest) THEN d ELSE Len(rest)
    IN  [j \in 1..Len(rest) |-> IF j <= k THEN rest[j] - 1 ELSE rest[j]]

\* the body of the loop of residue: d = seq.pop(0), the first d entries
\* (the slice is clipped to the list) decremented, the list sorted again
residue_reduce(s) ==
    LET d == Head(s)
        rest == Tail(s)
        k == IF d < Len(rest) THEN d ELSE Len(rest)
    IN  sorted_descending(
            [j \in 1..Len(rest) |-> IF j <= k THEN rest[j] - 1 ELSE rest[j]])

(***************************************************************************)
(* The registries and the classifier.                                      *)
(***************************************************************************)
\* the functions tagged __is_lower_bound, __is_upper_bound, __is_alpha_property
\* that a registry setting may list
LowerNames == {"matching_lower_bound", "residue"}

UpperNames == {"kwok", "borg"}

PropertyNames == {"has_pendant_vertex", "is_KE"}

\* the class attributes as written in the class body
ConfiguredRegistry == <<>>

\* self.func(): the attribute looked up is the literal name func, whatever
\* the loop variable holds; INPGraph has no such attribute
CallFunc(G, func) == Raise("AttributeError")

\* the loop of best_lower_bound from entry k on, lbound the running value
RECURSIVE lower_bound_loop(_, _, _, _)
lower_bound_loop(G, R, k, lb) ==
    IF k > Len(R) THEN Value(lb)
    ELSE LET new_bound == CallFunc(G, R[k])
         IN  IF new_bound.kind = "value"
             THEN lower_bound_loop(G, R, k + 1,
                     IF RatLess(lb, new_bound.val) THEN new_bound.val ELSE lb)
             ELSE IF new_bound.val = "ValueError"
             THEN lower_bound_loop(G, R, k + 1, lb)
             ELSE new_bound

\* best_lower_bound of G when the registry __lower_bounds is R
best_lower_bound(G, R) == lower_bound_loop(G, R, 1, Rat(1, 1))

\* the loop of best_upper_bound from entry k on, ub the running value
RECURSIVE upper_bound_loop(_, _, _, _)
upper_bound_loop(G, R, k, ub) ==
    IF k > Len(R) THEN Value(ub)
    ELSE LET new_bound == CallFunc(G, R[k])
         IN  IF new_bound.kind = "value"
             THEN upper_bound_loop(G, R, k + 1,
                     IF RatLess(new_bound.val, ub) THEN new_bound.val ELSE ub)
             ELSE IF new_bound.val = "ValueError"
             THEN upper_bound_loop(G, R, k + 1, ub)
             ELSE new_bound

\* best_upper_bound of G when the registry __upper_bounds is R
best_upper_bound(G, R) == upper_bound_loop(G, R, 1, Rat(order(G), 1))

NoReturn == [op |-> "none", out |-> [kind |-> "none", val |-> 0]]

Returned(op, out) == [op |-> op, out |-> out]

\* the call the client made: the frame an uncaught exception ends in
Outermost(op) == IF caller = "client" THEN op ELSE caller

Propagate(op, out) ==
    /\ ret' = Returned(Outermost(op), out)
    /\ pc' = "idle"
    /\ UNCHANGED <<g, lower_bounds, upper_bounds, alpha_properties,
                   caller, i, bound, lbound, ubound, has_property, residue_seq>>

Call_best_lower_bound ==
    /\ pc = "idle"
    /\ pc' = "best_lower_bound"
    /\ caller' = "client"
    /\ bound' = Rat(1, 1)
    /\ i' = 1
    /\ ret' = NoReturn
    /\ UNCHANGED <<g, lower_bounds, upper_bounds, alpha_properties,
                   lbound, ubound, has_property, residue_seq>>

Call_best_upper_bound ==
    /\ pc = "idle"
    /\ pc' = "best_upper_bound"
    /\ caller' = "client"
    /\ bound' = Rat(order(g), 1)
    /\ i' = 1
    /\ ret' = NoReturn
    /\ UNCHANGED <<g, lower_bounds, upper_bounds, alpha_properties,
                   lbound, ubound, has_property, residue_seq>>

Call_has_alpha_property ==
    /\ pc = "idle"
    /\ pc' = "has_alpha_property"
    /\ caller' = "client"
    /\ i' = 1
    /\ ret' = NoReturn
    /\ UNCHANGED <<g, lower_bounds, upper_bounds, alpha_properties,
                   bound, lbound, ubound, has_property, residue_seq>>

Call_is_difficult ==
    /\ pc = "idle"
    /\ pc' = "has_alpha_property"
    /\ caller' = "is_difficult"
    /\ i' = 1
    /\ has_property' = FALSE
    /\ lbound' = 0
    /\ ubound' = 0
    /\ ret' = NoReturn
    /\ UNCHANGED <<g, lower_bounds, upper_bounds, alpha_properties, bound, residue_seq>>

\* one iteration of the loop of best_lower_bound
best_lower_bound_step ==
    /\ pc = "best_lower_bound"
    /\ i <= Len(lower_bounds)
    /\ LET new_bound == CallFunc(g, lower_bounds[i])
       IN  IF new_bound.kind = "value"
           THEN /\ bound' = IF RatLess(bound, new_bound.val)
                            THEN new_bound.val ELSE bound
                /\ i' = i + 1
                /\ UNCHANGED <<g, lower_bounds, upper_bounds,
                               alpha_properties, pc, caller, lbound,
                               ubound, ret, has_property, residue_seq>>
           ELSE IF new_bound.val = "ValueError"
           THEN /\ i' = i + 1
                /\ UNCHANGED <<g, lower_bounds, upper_bounds,
                               alpha_properties, pc, caller, bound,
                               lbound, ubound, ret, has_property, residue_seq>>
           ELSE Propagate("best_lower_bound", new_bound)

\* return lbound; in is_difficult the value is rounded up and the upper
\* bound is computed next
best_lower_bound_return ==
    /\ pc = "best_lower_bound"
    /\ i > Len(lower_bounds)
    /\ IF caller = "client"
       THEN /\ ret' = Returned("best_lower_bound", Value(bound))
            /\ pc' = "idle"
            /\ UNCHANGED <<g, lower_bounds, upper_bounds, alpha_properties,
                           caller, i, bound, lbound, ubound, has_property, residue_seq>>
       ELSE /\ lbound' = ceil(bound)
            /\ pc' = "best_upper_bound"
            /\ bound' = Rat(order(g), 1)
            /\ i' = 1
            /\ UNCHANGED <<g, lower_bounds, upper_bounds, alpha_properties,
                           caller, ubound, ret, has_property, residue_seq>>

\* one iteration of the loop of best_upper_bound
best_upper_bound_step ==
    /\ pc = "best_upper_bound"
    /\ i <= Len(upper_bounds)
    /\ LET new_bound == CallFunc(g, upper_bounds[i])
       IN  IF new_bound.kind = "value"
           THEN /\ bound' = IF RatLess(new_bound.val, bound)
                            THEN new_bound.val ELSE bound
                /\ i' = i + 1
                /\ UNCHANGED <<g, lower_bounds, upper_bounds,
                               alpha_properties, pc, caller, lbound,
                               ubound, ret, has_property, residue_seq>>
           ELSE IF new_bound.val = "ValueError"
           THEN /\ i' = i + 1
                /\ UNCHANGED <<g, lower_bounds, upper_bounds,
                               alpha_properties, pc, caller, bound,
                               lbound, ubound, ret, has_property, residue_seq>>
           ELSE Propagate("best_upper_bound", new_bound)

\* return ubound; in is_difficult the value is rounded down and compared
best_upper_bound_return ==
    /\ pc = "best_upper_bound"
    /\ i > Len(upper_bounds)
    /\ pc' = "idle"
    /\ IF caller = "client"
       THEN /\ ret' = Returned("best_upper_bound", Value(bound))
            /\ UNCHANGED <<g, lower_bounds, upper_bounds, alpha_properties,
                           caller, i, bound, lbound, ubound, has_property, residue_seq>>
       ELSE /\ ubound' = floor(bound)
            /\ ret' = Returned("is_difficult",
                               Value(~(lbound = floor(bound))))
            /\ UNCHANGED <<g, lower_bounds, upper_bounds, alpha_properties,
                           caller, i, bound, lbound, has_property, residue_seq>>

\* has_alpha_property returns r: to the client, or into is_difficult
has_alpha_property_returns(r) ==
    IF caller = "client"
    THEN /\ ret' = Returned("has_alpha_property", Value(r))
         /\ pc' = "idle"
         /\ UNCHANGED <<g, lower_bounds, upper_bounds, alpha_properties,
                        caller, i, bound, has_property, lbound, ubound, residue_seq>>
    ELSE IF r
    THEN /\ has_property' = r
         /\ ret' = Returned("is_difficult", Value(FALSE))
         /\ pc' = "idle"
         /\ UNCHANGED <<g, lower_bounds, upper_bounds, alpha_properties,
                        caller, i, bound, lbound, ubound, residue_seq>>
    ELSE /\ has_property' = r
         /\ pc' = "best_lower_bound"
         /\ bound' = Rat(1, 1)
         /\ i' = 1
         /\ UNCHANGED <<g, lower_bounds, upper_bounds, alpha_properties,
                        caller, lbound, ubound, ret, residue_seq>>

\* one iteration of the loop of has_alpha_property
has_alpha_property_step ==
    /\ pc = "has_alpha_property"
    /\ i <= Len(alpha_properties)
    /\ LET r == CallFunc(g, alpha_properties[i])
       IN  IF r.kind = "value"
           THEN IF r.val
                THEN has_alpha_property_returns(TRUE)
                ELSE /\ i' = i + 1
                     /\ UNCHANGED <<g, lower_bounds, upper_bounds,
                                    alpha_properties, pc, caller, bound,
                                    lbound, ubound, ret, has_property, residue_seq>>
           ELSE IF r.val = "ValueError"
           THEN /\ i' = i + 1
                /\ UNCHANGED <<g, lower_bounds, upper_bounds,
                               alpha_properties, pc, caller, bound,
                               lbound, ubound, ret, has_property, residue_seq>>
           ELSE Propagate("has_alpha_property", r)

has_alpha_property_return ==
    /\ pc = "has_alpha_property"
    /\ i > Len(alpha_properties)
    /\ has_alpha_property_returns(FALSE)

(***************************************************************************)
(* Direct calls of the library methods.                                    *)
(***************************************************************************)
Method(op, out) ==
    /\ pc = "idle"
    /\ ret' = Returned(op, out)
    /\ UNCHANGED <<g, lower_bounds, upper_bounds, alpha_properties,
                   pc, caller, i, bound, lbound, ubound, has_property, residue_seq>>

Call_matching_number == Method("matching_number", Value(matching_number(g)))

Call_independence_number ==
    Method("independence_number", Value(independence_number(g)))

Call_bipartite_double_cover ==
    Method("bipartite_double_cover", Value(bipartite_double_cover(g)))

Call_union_MCIS == Method("union_MCIS", Value(union_MCIS(g)))

Call_is_KE == Method("is_KE", Value(is_KE(g)))

Call_kwok == Method("kwok", kwok(g))

Call_borg == Method("borg", borg(g))

Call_annihilation_number ==
    Method("annihilation_number", Value(annihilation_number(g)))

Call_cut_vertices_bound ==
    Method("cut_vertices_bound", Value(cut_vertices_bound(g)))

(***************************************************************************)
(* residue, one loop iteration at a time.                                  *)
(***************************************************************************)
Call_residue ==
    /\ pc = "idle"
    /\ pc' = "residue"
    /\ residue_seq' = degree_sequence(g)
    /\ ret' = NoReturn
    /\ UNCHANGED <<g, lower_bounds, upper_bounds, alpha_properties,
                   caller, i, bound, has_property, lbound, ubound>>

\* while seq[0] > 0: one iteration
residue_step ==
    /\ pc = "residue"
    /\ residue_seq # <<>>
    /\ residue_seq[1] > 0
    /\ residue_seq' = residue_reduce(residue_seq)
    /\ UNCHANGED <<g, lower_bounds, upper_bounds, alpha_properties,
                   pc, caller, i, bound, has_property, lbound, ubound, ret>>

\* seq[0] > 0 is false: return len(seq)
residue_return ==
    /\ pc = "residue"
    /\ residue_seq # <<>>
    /\ ~(residue_seq[1] > 0)
    /\ ret' = Returned("residue", Value(Len(residue_seq)))
    /\ pc' = "idle"
    /\ UNCHANGED <<g, lower_bounds, upper_bounds, alpha_properties,
                   caller, i, bound, has_property, lbound, ubound, residue_seq>>

\* seq[0] on the empty list
residue_index_error ==
    /\ pc = "residue"
    /\ residue_seq = <<>>
    /\ ret' = Returned("residue", Raise("IndexError"))
    /\ pc' = "idle"
    /\ UNCHANGED <<g, lower_bounds, upper_bounds, alpha_properties,
                   caller, i, bound, has_property, lbound, ubound, residue_seq>>

(***************************************************************************)
(* Specifications.                                                         *)
(***************************************************************************)
Graphs(N) ==
    UNION {{[V |-> 0..(n - 1), E |-> E] : E \in SUBSET Pairs(0..(n - 1))} :
             n \in 0..N}

Registries(Names) ==
    UNION {[1..k -> Names] : k \in 0..MaxReg}

Idle ==
    /\ pc = "idle"
    /\ caller = "client"
    /\ i = 0
    /\ bound = Rat(0, 1)
    /\ has_property = FALSE
    /\ lbound = 0
    /\ ubound = 0
    /\ ret = NoReturn
    /\ residue_seq = <<>>

\* the classifier, over every registry setting up to MaxReg entries
Init ==
    /\ g \in Graphs(MaxOrder)
    /\ lower_bounds \in Registries(LowerNames)
    /\ upper_bounds \in Registries(UpperNames)
    /\ alpha_properties \in Registries(PropertyNames)
    /\ Idle

Next ==
    \/ Call_best_lower_bound
    \/ best_lower_bound_step
    \/ best_lower_bound_return
    \/ Call_best_upper_bound
    \/ best_upper_bound_step
    \/ best_upper_bound_return
    \/ Call_has_alpha_property
    \/ has_alpha_property_step
    \/ has_alpha_property_return
    \/ Call_is_difficult

Spec == Init /\ [][Next]_vars

\* the library methods, with the registries as the class body sets them
InitFn ==
    /\ g \in Graphs(MaxN)
    /\ lower_bounds = ConfiguredRegistry
    /\ upper_bounds = ConfiguredRegistry
    /\ alpha_properties = ConfiguredRegistry
    /\ Idle

NextFn ==
    \/ Call_matching_number
    \/ Call_independence_number
    \/ Call_bipartite_double_cover
    \/ Call_union_MCIS
    \/ Call_is_KE
    \/ Call_kwok
    \/ Call_borg
    \/ Call_annihilation_number
    \/ Call_cut_vertices_bound

SpecFn == InitFn /\ [][NextFn]_vars

\* residue alone. The client may or may not call; a call that has started
\* runs on in its thread, so each step of the loop that can be taken is taken
NextResidue ==
    \/ Call_residue
    \/ residue_step
    \/ residue_return
    \/ residue_index_error

SpecResidue ==
    /\ InitFn
    /\ [][NextResidue]_vars
    /\ WF_vars(residue_step)
    /\ WF_vars(residue_return)
    /\ WF_vars(residue_index_error)

(***************************************************************************)
(* Reference notions, by exhaustive search.                                *)
(***************************************************************************)
IndependentSets(G) == {S \in SUBSET G.V : IsIndependent(G, S)}

OpenNeighborhood(G, S) == UNION {neighbors(G, v) : v \in S}

Surplus(G, S) == Cardinality(S) - Cardinality(OpenNeighborhood(G, S))

\* independent sets S maximising |S| - |N(S)|
CriticalIndependentSets(G) ==
    {S \in IndependentSets(G) :
        \A T \in IndependentSets(G) : Surplus(G, T) <= Surplus(G, S)}

\* the critical independent sets of largest cardinality
MaximumCriticalIndependentSets(G) ==
    {S \in CriticalIndependentSets(G) :
        \A T \in CriticalIndependentSets(G) :
            Cardinality(T) <= Cardinality(S)}

IsKonigEgervary(G) ==
    independence_number(G) + matching_number(G) = order(G)

\* the graph6 string 'Cx': the triangle 0,1,2 with the pendant vertex 3 at 2
Paw == [V |-> 0..3, E |-> {{0, 1}, {0, 2}, {1, 2}, {2, 3}}]

ReturnedValue(op) == ret.op = op /\ ret.out.kind = "value"

(***************************************************************************)
(* C5. bipartite_double_cover(G) has vertex set V x {0,1}, has the edge    *)
(* (u,0)-(v,1) iff (u,v) is an edge of G or u = v, is the tensor product   *)
(* of G with the complete graph on 2 vertices, and for the complete graph  *)
(* on 3 vertices is isomorphic to the 6-cycle.                             *)
(***************************************************************************)
C5_Original ==
    ReturnedValue("bipartite_double_cover") =>
        LET B == ret.out.val
        IN  /\ B.V = g.V \X {0, 1}
            /\ \A u \in g.V : \A v \in g.V :
                  ({<<u, 0>>, <<v, 1>>} \in B.E) <=> ({u, v} \in g.E \/ u = v)
            /\ B = tensor_product(g, CompleteGraph(2))
            /\ (g = CompleteGraph(3) => IsIsomorphic(B, CycleGraph(6)))

(***************************************************************************)
(* C5 as amended. bipartite_double_cover(G) has vertex set V x {0,1}, has  *)
(* the edge (u,0)-(v,1) iff (u,v) is an edge of G (so never for u = v),    *)
(* has no edge inside a layer, is the tensor product of G with the         *)
(* complete graph on 2 vertices, and for the complete graph on 3 vertices  *)
(* is isomorphic to the 6-cycle.                                           *)
(***************************************************************************)
C5_Amended ==
    ReturnedValue("bipartite_double_cover") =>
        LET B == ret.out.val
        IN  /\ B.V = g.V \X {0, 1}
            /\ \A u \in g.V : \A v \in g.V :
                  /\ ({<<u, 0>>, <<v, 1>>} \in B.E) <=> ({u, v} \in g.E)
                  /\ {<<u, 0>>, <<v, 0>>} \notin B.E
                  /\ {<<u, 1>>, <<v, 1>>} \notin B.E
            /\ B = tensor_product(g, CompleteGraph(2))
            /\ (g = CompleteGraph(3) => IsIsomorphic(B, CycleGraph(6)))

C5_Witness ==
    /\ g = CompleteGraph(3)
    /\ ReturnedValue("bipartite_double_cover")
    /\ Cardinality(ret.out.val.E) = 6

(***************************************************************************)
(* C6. union_MCIS of the 4-cycle returns all 4 of its vertices, and        *)
(* union_MCIS of the complement of the 4-cycle (two disjoint edges)        *)
(* returns exactly 3 vertices.                                             *)
(***************************************************************************)
C6_Original ==
    ReturnedValue("union_MCIS") =>
        /\ g = CycleGraph(4) => ret.out.val = 0..3
        /\ g = complement(CycleGraph(4)) => Cardinality(ret.out.val) = 3

(***************************************************************************)
(* C6 as amended. union_MCIS of the 4-cycle returns all 4 of its vertices, *)
(* and union_MCIS of the complement of the 4-cycle (two disjoint edges)    *)
(* returns all 4 vertices as well; the 3-vertex result {0,1,3} is that of  *)
(* the graph 'Cx', the triangle with a pendant vertex.                     *)
(***************************************************************************)
C6_Amended ==
    ReturnedValue("union_MCIS") =>
        /\ g = CycleGraph(4) => ret.out.val = 0..3
        /\ g = complement(CycleGraph(4)) => ret.out.val = 0..3
        /\ g = Paw => ret.out.val = {0, 1, 3}

C6_Witness ==
    /\ g = complement(CycleGraph(4))
    /\ size(g) = 2
    /\ ReturnedValue("union_MCIS")
    /\ Cardinality(ret.out.val) = 4

(***************************************************************************)
(* C8. For every graph G (order >= 0), union_MCIS(G) is exactly the set of *)
(* vertices that lie in at least one maximum critical independent set of   *)
(* G; for order 0 the result is empty.                                     *)
(***************************************************************************)
C8_UnionOfMCIS ==
    ReturnedValue("union_MCIS") =>
        /\ ret.out.val = UNION MaximumCriticalIndependentSets(g)
        /\ order(g) = 0 => ret.out.val = {}

C8_Witness ==
    /\ ReturnedValue("union_MCIS")
    /\ order(g) = 4
    /\ ret.out.val # {}
    /\ ret.out.val # g.V

DegreesAscending(G) == sorted(degree(G))

PrefixAtMostRest(G, k) ==
    sum(SubSeq(DegreesAscending(G), 1, k))
        <= sum(SubSeq(DegreesAscending(G), k + 1, order(G)))

C10_Original ==
    ReturnedValue("annihilation_number") =>
        LET a == ret.out.val
        IN  /\ a \in 1..order(g)
            /\ PrefixAtMostRest(g, a)
            /\ \A k \in 1..order(g) : PrefixAtMostRest(g, k) => a <= k
            /\ independence_number(g) <= a
            /\ a <= order(g)

(***************************************************************************)
(* C10 as amended. annihilation_number(G) returns the smallest index       *)
(* a >= 1 such that the sum of the first a entries of the ascending-sorted *)
(* degree sequence is > the sum of the remaining entries, and n + 1 when   *)
(* no index up to n is such; the returned value is an upper bound on       *)
(* alpha(G) that never exceeds n + 1.                                      *)
(***************************************************************************)
C10_Amended ==
    ReturnedValue("annihilation_number") =>
        LET a == ret.out.val
        IN  /\ a \in 1..(order(g) + 1)
            /\ a <= order(g) => ~PrefixAtMostRest(g, a)
            /\ \A k \in 1..order(g) : ~PrefixAtMostRest(g, k) => a <= k
            /\ independence_number(g) <= a
            /\ a <= order(g) + 1

C10_Witness ==
    /\ ReturnedValue("annihilation_number")
    /\ g = CompleteGraph(3)
    /\ ret.out.val = 2

(***************************************************************************)
(* Claims about the classifier.                                            *)
(***************************************************************************)
RatLeq(p, q) == ~RatLess(q, p)

Alpha(G) == Rat(independence_number(G), 1)

ClassifierOps ==
    {"best_lower_bound", "best_upper_bound", "has_alpha_property",
     "is_difficult"}

AsConfigured ==
    /\ lower_bounds = ConfiguredRegistry
    /\ upper_bounds = ConfiguredRegistry
    /\ alpha_properties = ConfiguredRegistry

\* the registries that R extends: R with any of its entries left out
RECURSIVE SubRegistries(_)
SubRegistries(R) ==
    IF R = <<>> THEN {<<>>}
    ELSE LET rest == SubRegistries(Tail(R))
         IN  rest \cup {<<Head(R)>> \o r : r \in rest}

(***************************************************************************)
(* C1. For every graph G, orders 0 and 1 included, the values returned by  *)
(* best_lower_bound and best_upper_bound bracket the independence number   *)
(* found by exhaustive search: best_lower_bound(G) <= alpha(G) <=          *)
(* best_upper_bound(G).                                                    *)
(***************************************************************************)
C1_BoundsBracketAlpha ==
    /\ ReturnedValue("best_lower_bound") => RatLeq(ret.out.val, Alpha(g))
    /\ ReturnedValue("best_upper_bound") => RatLeq(Alpha(g), ret.out.val)

(***************************************************************************)
(* C2. is_difficult(G) returns true iff has_alpha_property(G) is false and *)
(* ceil(best_lower_bound(G)) < floor(best_upper_bound(G)); it returns      *)
(* false whenever the rounded lower bound is not below the rounded upper   *)
(* bound.                                                                  *)
(***************************************************************************)
C2_DifficultIffBelow ==
    ReturnedValue("is_difficult") =>
        (ret.out.val <=> (~has_property /\ lbound < ubound))

(***************************************************************************)
(* C3. No error raised by a registry entry aborts best_lower_bound,        *)
(* best_upper_bound, has_alpha_property or is_difficult: the failing entry *)
(* is skipped, the call returns, and its result is the one computed over   *)
(* the entries that succeeded.                                             *)
(***************************************************************************)
C3_NoEntryAborts ==
    (pc = "idle" /\ ret.op \in ClassifierOps) => ret.out.kind = "value"

(***************************************************************************)
(* C4. For the complete graph on 3 vertices the classifier as configured   *)
(* reports ceil(best_lower_bound) = floor(best_upper_bound) = 1 and        *)
(* is_difficult returns false.                                             *)
(***************************************************************************)
C4_CompleteGraph3 ==
    (g = CompleteGraph(3) /\ AsConfigured /\ ret.op = "is_difficult") =>
        /\ ret.out.kind = "value"
        /\ lbound = 1
        /\ ubound = 1
        /\ ret.out.val = FALSE

(***************************************************************************)
(* C7. The reductions only tighten: the running value of best_lower_bound  *)
(* starts at 1 and never decreases, that of best_upper_bound starts at n   *)
(* and never increases, and for any registry R and any extension R' of R   *)
(* best_lower_bound over R' >= best_lower_bound over R and                 *)
(* best_upper_bound over R' <= best_upper_bound over R.                    *)
(***************************************************************************)
C7_OnlyTighten ==
    /\ pc = "best_lower_bound" => RatLeq(Rat(1, 1), bound)
    /\ pc = "best_upper_bound" => RatLeq(bound, Rat(order(g), 1))
    /\ (pc = "idle" /\ ret.op = "best_lower_bound") =>
          \A R \in SubRegistries(lower_bounds) :
             /\ ret.out.kind = "value"
             /\ best_lower_bound(g, R).kind = "value"
             /\ RatLeq(best_lower_bound(g, R).val, ret.out.val)
    /\ (pc = "idle" /\ ret.op = "best_upper_bound") =>
          \A R \in SubRegistries(upper_bounds) :
             /\ ret.out.kind = "value"
             /\ best_upper_bound(g, R).kind = "value"
             /\ RatLeq(ret.out.val, best_upper_bound(g, R).val)

(***************************************************************************)
(* C11. For every graph G with n vertices and C cut vertices,              *)
(* cut_vertices_bound(G) = n - C/2 - 1/2 is an upper bound on the          *)
(* independence number: 2*alpha(G) <= 2n - C - 1, graphs without cut       *)
(* vertices and disconnected or edgeless graphs included.                  *)
(***************************************************************************)
C11_CutVerticesBound ==
    ReturnedValue("cut_vertices_bound") =>
        /\ ret.out.val.den = 2
        /\ ret.out.val.num = 2 * order(g) - Cardinality(cut_vertices(g)) - 1
        /\ RatLeq(Alpha(g), ret.out.val)
        /\ 2 * independence_number(g)
              <= 2 * order(g) - Cardinality(cut_vertices(g)) - 1

(***************************************************************************)
(* C12. For every graph G of order >= 1 the loop of residue (remove the    *)
(* largest entry d, decrement the next d entries, sort descending again)   *)
(* never reads an empty sequence, never produces a negative entry, ends    *)
(* with the head of the sequence equal to 0 and returns a length that is   *)
(* at most alpha(G); and it terminates.                                    *)
(***************************************************************************)
C12_Safe ==
    order(g) >= 1 =>
        /\ pc = "residue" =>
              /\ residue_seq # <<>>
              /\ \A k \in 1..Len(residue_seq) : residue_seq[k] >= 0
        /\ (pc = "idle" /\ ret.op = "residue") =>
              /\ ret.out.kind = "value"
              /\ residue_seq # <<>>
              /\ residue_seq[1] = 0
              /\ \A k \in 1..Len(residue_seq) : residue_seq[k] >= 0
              /\ ret.out.val = Len(residue_seq)
              /\ ret.out.val <= independence_number(g)

C12_Residue ==
    /\ []C12_Safe
    /\ (order(g) >= 1 /\ pc = "residue")
          ~> (pc = "idle" /\ ReturnedValue("residue"))

C12_Witness ==
    /\ order(g) = 4
    /\ size(g) >= 3
    /\ pc = "idle"
    /\ ReturnedValue("residue")
    /\ ret.out.val = 2
    /\ Len(residue_seq) = 2

=============================================================================
